---- MODULE Spec2Model ----
(***************************************************************************)
(* Model of posepile/util/preproc_for_efficiency.py:                       *)
(*   make_efficient_example, get_expanded_crop_box and                     *)
(*   get_connected_component_with_highest_iou.                             *)
(*                                                                         *)
(* Lengths are integers (pixels); factors are fixed point: scale factors   *)
(* in thousandths, further_expansion_factor in tenths.                     *)
(***************************************************************************)
EXTENDS Integers, Sequences, FiniteSets, TLC

Max2(a, b) == IF a >= b THEN a ELSE b

Min2(a, b) == IF a <= b THEN a ELSE b

(***************************************************************************)
(* Boxes are <<x, y, w, h>>, as in boxlib.                                 *)
(***************************************************************************)
Box(x, y, w, h) == <<x, y, w, h>>

\* boxlib.full(imsize=[w, h])
BoxFull(w, h) == Box(0, 0, w, h)

\* boxlib.center(box): twice the centre, to stay in the integers
Center2(b) == <<2 * b[1] + b[3], 2 * b[2] + b[4]>>

\* boxlib.box_around(center, side), centre given doubled
BoxAround(c2, side) == Box((c2[1] - side) \div 2, (c2[2] - side) \div 2, side, side)

\* boxlib.expand(box, factor), factor = num / den: same centre, size * factor
BoxExpand(b, num, den) ==
    LET nw == (b[3] * num) \div den
        nh == (b[4] * num) \div den
    IN  Box((2 * b[1] + b[3] - nw) \div 2, (2 * b[2] + b[4] - nh) \div 2, nw, nh)

\* boxlib.intersection(a, b): the empty box has zero size
BoxIntersection(a, b) ==
    LET l == Max2(a[1], b[1])
        t == Max2(a[2], b[2])
        r == Min2(a[1] + a[3], b[1] + b[3])
        d == Min2(a[2] + a[4], b[2] + b[4])
    IN  Box(l, t, Max2(r - l, 0), Max2(d - t, 0))

\* a contains b
BoxContains(a, b) ==
    /\ a[1] <= b[1]
    /\ a[2] <= b[2]
    /\ b[1] + b[3] <= a[1] + a[3]
    /\ b[2] + b[4] <= a[2] + a[4]

BoxArea(b) == b[3] * b[4]

\* np.array([-1e9, -1e9, 2e9, 2e9]) (line 46)
Unbounded == 1000000000

UnboundedBox == Box(-Unbounded, -Unbounded, 2 * Unbounded, 2 * Unbounded)

(***************************************************************************)
(* get_expanded_crop_box (lines 126-140).                                  *)
(* sin and cos of max_rotate = pi / 6 in thousandths; padding_factor *     *)
(* shift_factor * scale_down_factor = 1.1 / 0.85^2 = 440 / 289;            *)
(* further_expansion_factor is fef10 / 10.                                 *)
(***************************************************************************)
Sin30 == 500

Cos30 == 866

ExpansionNum == 440

ExpansionDen == 289

RotBboxSideMin(w, h) ==
    Min2((Cos30 * w + Sin30 * h) \div 1000, (Cos30 * h + Sin30 * w) \div 1000)

RotBboxSide(w, h) ==
    Max2((Cos30 * w + Sin30 * h) \div 1000, (Cos30 * h + Sin30 * w) \div 1000)

RotBbox(bbox) == BoxAround(Center2(bbox), RotBboxSide(bbox[3], bbox[4]))

ExpandedRotBbox(bbox, fef10) ==
    BoxExpand(RotBbox(bbox), ExpansionNum * fef10, ExpansionDen * 10)

get_expanded_crop_box(bbox, full_box, fef10) ==
    BoxIntersection(ExpandedRotBbox(bbox, fef10), full_box)

(***************************************************************************)
(* Cameras (cameralib.Camera), reduced to what the crop needs: the world   *)
(* point the camera is aimed at (aim), the image offset of that point      *)
(* (off), the output scale in thousandths (sc), whether the lens is        *)
(* distorted and whether the image is mirrored.                            *)
(***************************************************************************)
Camera2D ==
    [aim |-> <<0, 0>>, off |-> <<0, 0>>, sc |-> 1000,
     distorted |-> FALSE, mirror |-> FALSE]

\* image point of camera c (doubled) to the world point seen there
ToWorld2(c, p2) ==
    <<((p2[1] - 2 * c.off[1]) * 1000) \div c.sc + 2 * c.aim[1],
      ((p2[2] - 2 * c.off[2]) * 1000) \div c.sc + 2 * c.aim[2]>>

\* world point (doubled) to the image point of camera c
ToImage(c, u2) ==
    <<((u2[1] - 2 * c.aim[1]) * c.sc) \div 2000 + c.off[1],
      ((u2[2] - 2 * c.aim[2]) * c.sc) \div 2000 + c.off[2]>>

\* cameralib.reproject_image_points for one point
reproject_image_points(p, old, new) == ToImage(new, ToWorld2(old, <<2 * p[1], 2 * p[2]>>))

\* Camera.turn_towards(target_image_point): the target moves to the offset
turn_towards(c, target2) ==
    [c EXCEPT !.aim = <<ToWorld2(c, target2)[1] \div 2, ToWorld2(c, target2)[2] \div 2>>]

\* Camera.undistort()
undistort(c) == [c EXCEPT !.distorted = FALSE]

\* Camera.shift_image(offset)
shift_image(c, d) == [c EXCEPT !.off = <<c.off[1] + d[1], c.off[2] + d[2]>>]

\* Camera.scale_output(factor), factor in thousandths
scale_output(c, f) ==
    [c EXCEPT !.sc = (c.sc * f) \div 1000,
              !.off = <<(c.off[1] * f) \div 1000, (c.off[2] * f) \div 1000>>]

\* the camera that describes an image after im[:, ::-1]
Mirrored(c) == [c EXCEPT !.mirror = ~c.mirror]

\* the box between two opposite extremes l, r (columns) and t, d (rows)
BoxBetween(l, r, t, d) ==
    Box(Min2(l, r), Min2(t, d), Max2(l, r) - Min2(l, r), Max2(t, d) - Min2(t, d))

\* cameralib.reproject_box_side_midpoints(box, old, new): the box around the
\* reprojected midpoints of the four sides
reproject_box_side_midpoints(b, old, new) ==
    BoxBetween(ToImage(new, ToWorld2(old, <<2 * b[1], 2 * b[2] + b[4]>>))[1],
               ToImage(new, ToWorld2(old, <<2 * (b[1] + b[3]), 2 * b[2] + b[4]>>))[1],
               ToImage(new, ToWorld2(old, <<2 * b[1] + b[3], 2 * b[2]>>))[2],
               ToImage(new, ToWorld2(old, <<2 * b[1] + b[3], 2 * (b[2] + b[4])>>))[2])

\* cameralib.reproject_box_corners(box, old, new): the box around the
\* reprojected corners
reproject_box_corners(b, old, new) ==
    BoxBetween(reproject_image_points(<<b[1], b[2]>>, old, new)[1],
               reproject_image_points(<<b[1] + b[3], b[2] + b[4]>>, old, new)[1],
               reproject_image_points(<<b[1], b[2]>>, old, new)[2],
               reproject_image_points(<<b[1] + b[3], b[2] + b[4]>>, old, new)[2])

(***************************************************************************)
(* The call make_efficient_example(ex, new_image_path, ...).               *)
(***************************************************************************)
VARIABLES
    args,     \* the arguments of the call and the shape of ex
    heap,     \* the Python objects: address -> object
    nextAddr, \* the next free address
    fs,       \* the files: source image, destination image, mask image
    now,      \* the clock that stamps written files
    call,     \* the number of the invocation in progress
    pc,       \* the position in make_efficient_example
    loc,      \* the local variables of the invocation
    ops,      \* per invocation, the I/O and pixel operations performed, in order
    pre,      \* per invocation, the files as they were when it began
    res,      \* per invocation, how it ended
    vanished, \* the invocation during which the source file was removed, or 0
    crop,     \* a call of get_expanded_crop_box on its own
    cc        \* a call of get_connected_component_with_highest_iou on its own

callVars == <<args, heap, nextAddr, fs, now, call, pc, loc, ops, pre, res, vanished>>

\* the state of the calls made on the two helper functions alone
aux == <<crop, cc>>

vars == <<callVars, aux>>

NoCrop == [pc |-> "idle"]

NoCC == [pc |-> "idle"]

\* the caller invokes the function this many times with the same arguments
MaxCalls == 2

\* the source image is 640 x 480 (the spec's scenario)
ImageWidth == 640

ImageHeight == 480

Bboxes == {Box(100, 100, 50, 80), Box(540, 360, 100, 120)}

\* references held in the fields of an example
None == [tag |-> "none", addr |-> 0, str |-> ""]

Ref(a) == [tag |-> "ref", addr |-> a, str |-> ""]

Str(s) == [tag |-> "str", addr |-> 0, str |-> s]

Unused == [kind |-> "unused"]

NdArray(d) == [kind |-> "ndarray", data |-> d]

CameraObj(c) == [kind |-> "Camera", val |-> c]

\* addresses of the caller's objects
ExAddr == 1

BboxAddr == 2

CameraAddr == 3

CoordsAddr == 4

WorldCoordsAddr == 5

MaskAddr == 6

ImageAddr == 7

InputAddrs == ExAddr .. ImageAddr

\* the camera of a 3D example: distorted, aimed at the image centre
InputCamera ==
    [aim |-> <<0, 0>>, off |-> <<ImageWidth \div 2, ImageHeight \div 2>>,
     sc |-> 1000, distorted |-> TRUE, mirror |-> FALSE]

InputCoords == <<120, 140>>

\* the caller's objects for the arguments a
InitHeap(a) ==
    [x \in InputAddrs |->
        CASE x = ExAddr ->
               [kind |-> "example",
                bbox |-> Ref(BboxAddr),
                image_path |-> IF a.image_is_path THEN Str("src.jpg") ELSE Ref(ImageAddr),
                camera |-> IF a.has_camera THEN Ref(CameraAddr) ELSE None,
                coords |-> IF a.is3d THEN None ELSE Ref(CoordsAddr),
                world_coords |-> IF a.is3d THEN Ref(WorldCoordsAddr) ELSE None,
                mask |-> CASE a.mask_kind = "none" -> None
                           [] a.mask_kind = "path" -> Str("mask.png")
                           [] OTHER -> Ref(MaskAddr)]
          [] x = BboxAddr -> NdArray(a.bbox)
          [] x = CameraAddr -> IF a.has_camera THEN CameraObj(InputCamera) ELSE Unused
          [] x = CoordsAddr -> IF a.is3d THEN Unused ELSE NdArray(InputCoords)
          [] x = WorldCoordsAddr -> IF a.is3d THEN NdArray("world_coords") ELSE Unused
          [] x = MaskAddr ->
               CASE a.mask_kind = "array" -> NdArray("mask")
                 [] a.mask_kind = "encoded" -> [kind |-> "rle", data |-> "mask"]
                 [] OTHER -> Unused
          [] OTHER -> IF a.image_is_path THEN Unused ELSE NdArray("image")]

Args ==
    {a \in [image_is_path : BOOLEAN, is3d : BOOLEAN, has_camera : BOOLEAN,
            bbox : Bboxes, mask_kind : {"none", "path", "array", "encoded"},
            further_expansion_factor : {0, 10},
            min_time : {<<>>, <<1>>},
            ignore_broken_image : BOOLEAN, horizontal_flip : BOOLEAN,
            downscale_input_for_antialias : BOOLEAN, extreme_perspective : BOOLEAN] :
        a.is3d => a.has_camera}

\* source file: missing, empty (zero bytes), truncated (header intact), ok
SrcStates == {"missing", "empty", "truncated", "ok"}

DstStates ==
    {[exists |-> FALSE, mtime |-> 0, readable |-> FALSE]} \cup
    [exists : {TRUE}, mtime : {0, 2}, readable : BOOLEAN]

Files(a) ==
    [src : IF a.image_is_path THEN SrcStates ELSE {"ok"},
     dst : DstStates,
     mask : IF a.mask_kind = "path" THEN {"missing", "ok"} ELSE {"ok"}]

NoItem == [present |-> FALSE, data |-> Camera2D, from |-> Camera2D, to |-> Camera2D]

Item(data, from, to) == [present |-> TRUE, data |-> data, from |-> from, to |-> to]

NoFrames == [image |-> NoItem, bbox |-> NoItem, coords |-> NoItem, mask |-> NoItem]

\* the fields of a returned example, by value
NoRecord ==
    [bbox |-> Box(0, 0, 0, 0), image_path |-> "", camera |-> <<>>, coords |-> <<>>,
     mask |-> <<>>]

Pending == [kind |-> "pending", exc |-> "", ex |-> 0, rec |-> NoRecord, frames |-> NoFrames]

InitLoc ==
    [w |-> 0, h |-> 0, has_3d_camera |-> FALSE, old_camera |-> 0, new_camera |-> 0,
     reprojected_box |-> Box(0, 0, 0, 0), expanded_bbox |-> Box(0, 0, 0, 0),
     first_reprojected_box |-> Box(0, 0, 0, 0), reprojected_full_box |-> Box(0, 0, 0, 0),
     scale_factor |-> 0, dst_shape |-> <<0, 0>>, im |-> Camera2D, new_ex |-> 0,
     frames |-> NoFrames]

Init ==
    /\ args \in Args
    /\ heap = InitHeap(args)
    /\ nextAddr = ImageAddr + 1
    /\ fs \in Files(args)
    /\ now = 3
    /\ call = 1
    /\ pc = "start"
    /\ loc = InitLoc
    /\ ops = [c \in 1 .. MaxCalls |-> <<>>]
    /\ pre = [c \in 1 .. MaxCalls |-> fs]
    /\ res = [c \in 1 .. MaxCalls |-> Pending]
    /\ vanished = 0
    /\ crop = NoCrop
    /\ cc = NoCC

ex == heap[ExAddr]

Log(op) == ops' = [ops EXCEPT ![call] = Append(@, op)]

Raise(exc) ==
    /\ pc' = "done"
    /\ res' = [res EXCEPT ![call] = [kind |-> "raise", exc |-> exc, ex |-> 0,
                                     rec |-> NoRecord, frames |-> loc.frames]]

\* return None, the exception exc swallowed
ReturnNone(exc) ==
    /\ pc' = "done"
    /\ res' = [res EXCEPT ![call] = [kind |-> "none", exc |-> exc, ex |-> 0,
                                     rec |-> NoRecord, frames |-> loc.frames]]

\* the fields of the example at address a, by value
RecordValue(h, a) ==
    [bbox |-> h[h[a].bbox.addr].data,
     image_path |-> h[a].image_path.str,
     camera |-> IF h[a].camera.tag = "ref" THEN <<h[h[a].camera.addr].val>> ELSE <<>>,
     coords |-> IF h[a].coords.tag = "ref" THEN <<h[h[a].coords.addr].data>> ELSE <<>>,
     mask |-> IF h[a].mask.tag = "ref" THEN <<h[h[a].mask.addr]>> ELSE <<>>]

\* return new_ex
ReturnRecord(h, frames) ==
    res' = [res EXCEPT ![call] = [kind |-> "record", exc |-> "", ex |-> loc.new_ex,
                                  rec |-> RecordValue(h, loc.new_ex),
                                  frames |-> frames]]

Alloc(h, a, v) == (a :> v) @@ h

Update(h, a, v) == [h EXCEPT ![a] = v]

\* the camera that truly describes the source image, the bbox, the coords, the mask
SourceCamera == IF args.has_camera THEN InputCamera ELSE Camera2D

\* improc.image_extents(path): opens the file and reads its header
image_extents(src) ==
    CASE src = "missing" -> [ok |-> FALSE, exc |-> "FileNotFoundError"]
      [] src = "empty" -> [ok |-> FALSE, exc |-> "UnidentifiedImageError"]
      [] OTHER -> [ok |-> TRUE, exc |-> ""]

\* improc.imread(path): decodes the whole file
imread(src) ==
    CASE src = "missing" -> [ok |-> FALSE, exc |-> "FileNotFoundError"]
      [] src = "ok" -> [ok |-> TRUE, exc |-> ""]
      [] OTHER -> [ok |-> FALSE, exc |-> "DecodeError"]

\* spu.is_file_newer(path, min_time)
is_file_newer(dst, min_time) ==
    dst.exists /\ (min_time = <<>> \/ dst.mtime >= min_time[1])

\* improc.is_image_readable(path)
is_image_readable(dst) == dst.readable

IsCachedAlways(dst, min_time) == dst.exists

NeverCached(dst, min_time) == FALSE

\* lines 61-62: the destination is there, new enough and readable
IsCached(dst, min_time) == is_file_newer(dst, min_time) /\ is_image_readable(dst)

SwallowsEveryFailure(ignore_broken_image, exc) == ignore_broken_image

\* line 67
SwallowsReadFailure(ignore_broken_image, exc) ==
    ignore_broken_image /\ exc # "FileNotFoundError"

AliasCamera(h, a, fresh) == [heap |-> Alloc(h, fresh, Unused), addr |-> a]

\* Camera.copy(): a new object with the same value
camera_copy(h, a, fresh) == [heap |-> Alloc(h, fresh, h[a]), addr |-> fresh]

\* the field f of the object at a, copied to the address fresh when it is a reference
CopiedField(h, a, f, fresh) == IF h[a][f].tag = "ref" THEN Ref(fresh) ELSE h[a][f]

CopiedCell(h, a, f) == IF h[a][f].tag = "ref" THEN h[h[a][f].addr] ELSE Unused

NoCopy(h, a, fresh) ==
    [heap |-> [x \in fresh .. fresh + 6 |-> Unused] @@ h, addr |-> a]

\* copy.deepcopy(ex): the example and every object it refers to, at fresh .. fresh + 6
deepcopy(h, a, fresh) ==
    [heap |->
        (fresh :> [kind |-> "example",
                   bbox |-> CopiedField(h, a, "bbox", fresh + 1),
                   image_path |-> CopiedField(h, a, "image_path", fresh + 2),
                   camera |-> CopiedField(h, a, "camera", fresh + 3),
                   coords |-> CopiedField(h, a, "coords", fresh + 4),
                   world_coords |-> CopiedField(h, a, "world_coords", fresh + 5),
                   mask |-> CopiedField(h, a, "mask", fresh + 6)])
        @@ (fresh + 1 :> CopiedCell(h, a, "bbox"))
        @@ (fresh + 2 :> CopiedCell(h, a, "image_path"))
        @@ (fresh + 3 :> CopiedCell(h, a, "camera"))
        @@ (fresh + 4 :> CopiedCell(h, a, "coords"))
        @@ (fresh + 5 :> CopiedCell(h, a, "world_coords"))
        @@ (fresh + 6 :> CopiedCell(h, a, "mask"))
        @@ h,
     addr |-> fresh]

AlwaysExpand(reprojected_box, reprojected_full_box, fef10) ==
    get_expanded_crop_box(reprojected_box, reprojected_full_box, fef10)

\* lines 49-51
SelectCropBox(reprojected_box, reprojected_full_box, fef10) ==
    IF fef10 > 0
        THEN get_expanded_crop_box(reprojected_box, reprojected_full_box, fef10)
        ELSE reprojected_box

\* line 52: min(1.2, 256 / max(w, h) * 1.5), in thousandths
ScaleFactor(reprojected_box) ==
    Min2(1200, 384000 \div Max2(reprojected_box[3], reprojected_box[4]))

\* spu.rounded_int_tuple(scale_factor * expanded_bbox[[3, 2]])
DstShape(scale_factor, expanded_bbox) ==
    <<(scale_factor * expanded_bbox[4] + 500) \div 1000,
      (scale_factor * expanded_bbox[3] + 500) \div 1000>>

(* lines 28-32 *)
ReadExtents ==
    /\ pc = "start"
    /\ IF args.image_is_path
         THEN /\ Log("extents_src")
              /\ IF image_extents(fs.src).ok
                   THEN /\ pc' = "plan"
                        /\ loc' = [loc EXCEPT !.w = ImageWidth, !.h = ImageHeight]
                        /\ UNCHANGED res
                   ELSE /\ Raise(image_extents(fs.src).exc)
                        /\ UNCHANGED loc
         ELSE /\ pc' = "plan"
              /\ loc' = [loc EXCEPT !.w = ImageWidth, !.h = ImageHeight]
              /\ UNCHANGED <<ops, res>>
    /\ UNCHANGED <<args, heap, nextAddr, fs, now, call, pre, vanished>>
    /\ UNCHANGED aux

(* lines 34-57; \E v \in {e} names the value of e, as an assignment does *)
PlanCrop ==
    /\ pc = "plan"
    /\ \E has_3d_camera \in {ex.camera.tag = "ref"}, bbox \in {heap[ex.bbox.addr].data} :
       \E old_camera \in {IF has_3d_camera THEN ex.camera.addr ELSE nextAddr} :
       \E cp \in {camera_copy(
                    Alloc(heap, nextAddr,
                          IF has_3d_camera THEN Unused ELSE CameraObj(Camera2D)),
                    old_camera, nextAddr + 1)} :
       \E new_camera \in {cp.addr} :
       \E h1 \in {IF has_3d_camera
                    THEN Update(cp.heap, new_camera,
                           CameraObj(undistort(turn_towards(cp.heap[new_camera].val,
                                                            Center2(bbox)))))
                    ELSE cp.heap} :
       \E reprojected_box \in
              {reproject_box_side_midpoints(bbox, h1[old_camera].val,
                                            h1[new_camera].val)} :
       \E reprojected_full_box \in
              {IF args.extreme_perspective
                 THEN UnboundedBox
                 ELSE reproject_box_corners(BoxFull(loc.w, loc.h),
                                            h1[old_camera].val, h1[new_camera].val)} :
       \E expanded_bbox \in
              {SelectCropBox(reprojected_box, reprojected_full_box,
                             args.further_expansion_factor)} :
       \E scale_factor \in {ScaleFactor(reprojected_box)} :
       \E h2 \in {Update(h1, new_camera,
                    CameraObj(scale_output(
                        shift_image(h1[new_camera].val,
                                    <<-expanded_bbox[1], -expanded_bbox[2]>>),
                        scale_factor)))} :
           /\ heap' = h2
           /\ loc' = [loc EXCEPT
                  !.has_3d_camera = has_3d_camera,
                  !.old_camera = old_camera,
                  !.new_camera = new_camera,
                  !.first_reprojected_box = reprojected_box,
                  !.reprojected_full_box = reprojected_full_box,
                  !.expanded_bbox = expanded_bbox,
                  !.scale_factor = scale_factor,
                  !.reprojected_box =
                      reproject_box_side_midpoints(bbox, h2[old_camera].val,
                                                   h2[new_camera].val),
                  !.dst_shape = DstShape(scale_factor, expanded_bbox),
                  !.frames.bbox =
                      Item(SourceCamera, h2[old_camera].val, h2[new_camera].val)]
    /\ nextAddr' = nextAddr + 2
    /\ pc' = "cache"
    /\ UNCHANGED <<args, fs, now, call, ops, pre, res, vanished>>
    /\ UNCHANGED aux

(* lines 59-62 *)
CheckCache ==
    /\ pc = "cache"
    /\ ops' = [ops EXCEPT ![call] =
                  IF is_file_newer(fs.dst, args.min_time)
                    THEN @ \o <<"stat_dst", "read_dst">>
                    ELSE Append(@, "stat_dst")]
    /\ pc' = IF IsCached(fs.dst, args.min_time) THEN "record" ELSE "read"
    /\ UNCHANGED <<args, heap, nextAddr, fs, now, call, loc, pre, res, vanished>>
    /\ UNCHANGED aux

(* lines 63-70 *)
ReadImage ==
    /\ pc = "read"
    /\ IF args.image_is_path
         THEN /\ Log("read_src")
              /\ IF imread(fs.src).ok
                   THEN /\ pc' = "warp"
                        /\ loc' = [loc EXCEPT !.im = SourceCamera]
                        /\ UNCHANGED res
                   ELSE /\ IF SwallowsReadFailure(args.ignore_broken_image,
                                                  imread(fs.src).exc)
                             THEN ReturnNone(imread(fs.src).exc)
                             ELSE Raise(imread(fs.src).exc)
                        /\ UNCHANGED loc
         ELSE /\ pc' = "warp"
              /\ loc' = [loc EXCEPT !.im = SourceCamera]
              /\ UNCHANGED <<ops, res>>
    /\ UNCHANGED <<args, heap, nextAddr, fs, now, call, pre, vanished>>
    /\ UNCHANGED aux

\* line 76: min(1, scale_factor * 4), in thousandths
InputScaleFactor(scale_factor) == Min2(1000, scale_factor * 4)

(* lines 71-96: flip, pre-downscale, warp, write *)
WarpAndWrite ==
    /\ pc = "warp"
    /\ \E flipped \in {IF args.horizontal_flip THEN Mirrored(loc.im) ELSE loc.im},
          input_scale_factor \in {InputScaleFactor(loc.scale_factor)},
          cp \in {camera_copy(heap, loc.old_camera, nextAddr)} :
       \E im \in {IF args.downscale_input_for_antialias
                    THEN scale_output(flipped, input_scale_factor)
                    ELSE flipped},
          old_camera_scaled \in
              {IF args.downscale_input_for_antialias THEN cp.addr ELSE loc.old_camera} :
       \E h1 \in {IF args.downscale_input_for_antialias
                    THEN Update(cp.heap, old_camera_scaled,
                           CameraObj(scale_output(cp.heap[old_camera_scaled].val,
                                                  input_scale_factor)))
                    ELSE Alloc(heap, nextAddr, Unused)} :
           /\ heap' = h1
           /\ loc' = [loc EXCEPT
                  !.im = im,
                  !.frames.image =
                      Item(im, h1[old_camera_scaled].val, h1[loc.new_camera].val)]
    /\ nextAddr' = nextAddr + 1
    /\ ops' = [ops EXCEPT ![call] = @ \o <<"warp_image", "mkdir_dst", "write_dst">>]
    /\ fs' = [fs EXCEPT !.dst = [exists |-> TRUE, mtime |-> now, readable |-> TRUE]]
    /\ pc' = "record"
    /\ UNCHANGED <<args, now, call, pre, res, vanished>>
    /\ UNCHANGED aux

(* lines 97-105 *)
BuildRecord ==
    /\ pc = "record"
    /\ \E is3d \in {ex.world_coords.tag # "none"},
          dc \in {deepcopy(heap, ExAddr, nextAddr)},
          bboxAddr \in {nextAddr + 7},
          coordsAddr \in {nextAddr + 8} :
       \E new_ex \in {dc.addr} :
       \E h1 \in {Update(Alloc(dc.heap, bboxAddr, NdArray(loc.reprojected_box)), new_ex,
                         [dc.heap[new_ex] EXCEPT !.bbox = Ref(bboxAddr),
                                                 !.image_path = Str("dst.jpg")])} :
       \E h2 \in {IF loc.has_3d_camera
                    THEN Update(h1, new_ex,
                                [h1[new_ex] EXCEPT !.camera = Ref(loc.new_camera)])
                    ELSE h1} :
           /\ heap' =
                  IF is3d
                    THEN Alloc(h2, coordsAddr, Unused)
                    ELSE Update(
                           Alloc(h2, coordsAddr,
                                 NdArray(reproject_image_points(
                                     h2[h2[new_ex].coords.addr].data,
                                     h2[loc.old_camera].val, h2[loc.new_camera].val))),
                           new_ex, [h2[new_ex] EXCEPT !.coords = Ref(coordsAddr)])
           /\ loc' = [loc EXCEPT
                  !.new_ex = new_ex,
                  !.frames.coords =
                      IF is3d THEN NoItem
                      ELSE Item(SourceCamera, h2[loc.old_camera].val,
                                h2[loc.new_camera].val)]
    /\ nextAddr' = nextAddr + 9
    /\ pc' = "mask"
    /\ UNCHANGED <<args, fs, now, call, ops, pre, res, vanished>>
    /\ UNCHANGED aux

\* the RLE mask the call computes (lines 113, 117, 122)
EncodedMask(to, dst_shape, component) ==
    [kind |-> "rle",
     data |-> [to |-> to, shape |-> dst_shape, component |-> component]]

\* lines 111, 116, 121: the camera passed as the mask's source camera is ex.camera
MaskSourceCamera(m) == m.camera

(* lines 107-123 *)
TransformMask ==
    /\ pc = "mask"
    /\ LET maskAddr == nextAddr
           from == MaskSourceCamera(ex)
           reads == IF ex.mask.tag = "str" THEN <<"read_mask">> ELSE <<>>
           h1 == Update(Alloc(heap, maskAddr,
                              EncodedMask(heap[loc.new_camera].val, loc.dst_shape,
                                          ex.mask.tag = "str")),
                        loc.new_ex, [heap[loc.new_ex] EXCEPT !.mask = Ref(maskAddr)])
       IN  CASE ex.mask.tag = "none" ->
                  /\ heap' = Alloc(heap, maskAddr, Unused)
                  /\ ReturnRecord(heap, loc.frames)
                  /\ UNCHANGED ops
             [] ex.mask.tag = "str" /\ ~imread(fs.mask).ok ->
                  /\ heap' = Alloc(heap, maskAddr, Unused)
                  /\ res' = [res EXCEPT ![call] =
                        [kind |-> "raise", exc |-> imread(fs.mask).exc, ex |-> 0,
                         rec |-> NoRecord, frames |-> loc.frames]]
                  /\ ops' = [ops EXCEPT ![call] = @ \o reads]
             [] ex.mask.tag # "none" /\ (ex.mask.tag = "str" => imread(fs.mask).ok)
                  /\ from.tag # "ref" ->
                  /\ heap' = Alloc(heap, maskAddr, Unused)
                  /\ res' = [res EXCEPT ![call] =
                        [kind |-> "raise", exc |-> "AttributeError", ex |-> 0,
                         rec |-> NoRecord, frames |-> loc.frames]]
                  /\ ops' = [ops EXCEPT ![call] = @ \o reads]
             [] OTHER ->
                  /\ heap' = h1
                  /\ ReturnRecord(h1, [loc.frames EXCEPT !.mask =
                         Item(SourceCamera, heap[from.addr].val,
                              heap[loc.new_camera].val)])
                  /\ ops' = [ops EXCEPT ![call] = @ \o reads \o <<"warp_mask">>]
    /\ nextAddr' = nextAddr + 1
    /\ pc' = "done"
    /\ UNCHANGED <<args, fs, now, call, loc, pre, vanished>>
    /\ UNCHANGED aux

(* the caller invokes the function again with the same arguments *)
CallAgain ==
    /\ pc = "done"
    /\ call < MaxCalls
    /\ call' = call + 1
    /\ pc' = "start"
    /\ loc' = InitLoc
    /\ now' = now + 1
    /\ pre' = [pre EXCEPT ![call + 1] = fs]
    /\ UNCHANGED <<args, heap, nextAddr, fs, ops, res, vanished>>
    /\ UNCHANGED aux

(* another process removes the source file while the call runs *)
SourceVanishes ==
    /\ pc # "done"
    /\ args.image_is_path
    /\ fs.src # "missing"
    /\ fs' = [fs EXCEPT !.src = "missing"]
    /\ vanished' = call
    /\ UNCHANGED <<args, heap, nextAddr, now, call, pc, loc, ops, pre, res>>
    /\ UNCHANGED aux

Next ==
    \/ ReadExtents
    \/ PlanCrop
    \/ CheckCache
    \/ ReadImage
    \/ WarpAndWrite
    \/ BuildRecord
    \/ TransformMask
    \/ CallAgain
    \/ SourceVanishes

Spec == Init /\ [][Next]_vars

(***************************************************************************)
(* Properties of make_efficient_example.                                   *)
(***************************************************************************)
Calls == 1 .. MaxCalls

Done(c) == res[c].kind # "pending"

Did(c, op) == \E i \in DOMAIN ops[c] : ops[c][i] = op

Count(c, op) == Cardinality({i \in DOMAIN ops[c] : ops[c][i] = op})

LastOp(c) == IF ops[c] = <<>> THEN "" ELSE ops[c][Len(ops[c])]

\* the destination was there, newer than min_time and readable when call c began
DstFreshAndReadable(c) ==
    /\ pre[c].dst.exists
    /\ pre[c].dst.readable
    /\ args.min_time # <<>> => pre[c].dst.mtime >= args.min_time[1]

\* call c ended at a read of the source file (its extents or its pixels)
EndedAtSourceRead(c) ==
    /\ res[c].kind \in {"none", "raise"}
    /\ LastOp(c) \in {"extents_src", "read_src"}

\* C1: a failed read of the source image returns None only when
\* ignore_broken_image is set and the failure is not FileNotFoundError; a read
\* that finds the source file missing raises whatever the flag, a source that
\* is missing when the call begins makes the call raise, and with the flag
\* unset every failed read raises.
C1_ReadFailurePolicy ==
    \A c \in Calls :
        /\ res[c].kind = "none" =>
              /\ args.ignore_broken_image
              /\ res[c].exc # "FileNotFoundError"
              /\ LastOp(c) = "read_src"
        /\ (Done(c) /\ args.image_is_path /\ pre[c].src = "missing") =>
              res[c].kind = "raise"
        /\ (call = c /\ pc = "done" /\ EndedAtSourceRead(c) /\ fs.src = "missing") =>
              (res[c].kind = "raise" /\ res[c].exc = "FileNotFoundError")
        /\ (EndedAtSourceRead(c) /\ ~args.ignore_broken_image) => res[c].kind = "raise"

\* C1 witness: with ignore_broken_image set, the source file is gone when
\* imread runs (line 64) and the call raises FileNotFoundError.
C1_Witness ==
    /\ pc = "done"
    /\ args.ignore_broken_image
    /\ fs.src = "missing"
    /\ LastOp(call) = "read_src"
    /\ res[call].kind = "raise"
    /\ res[call].exc = "FileNotFoundError"

\* C2 (as claimed): with ignore_broken_image set and a source file that
\* exists but cannot be decoded, the call returns None, whatever the state of
\* the destination file.
C2_CorruptSourceReturnsNone ==
    \A c \in Calls :
        (/\ Done(c)
         /\ args.image_is_path
         /\ args.ignore_broken_image
         /\ pre[c].src \in {"empty", "truncated"}
         /\ vanished # c)
        => res[c].kind = "none"

ImageOps == {"extents_src", "read_src", "read_mask", "warp_mask", "warp_image",
             "mkdir_dst", "write_dst", "read_dst"}

\* C4 (as claimed): with a fresh, readable destination the call performs no
\* image I/O and no pixel computation at all; in every other case the image
\* is recomputed.
C4_CacheSkipsAllImageWork ==
    \A c \in Calls :
        Done(c) =>
            /\ DstFreshAndReadable(c) => \A op \in ImageOps : ~Did(c, op)
            /\ ~DstFreshAndReadable(c) => Did(c, "warp_image")

\* C4 (amended): with a fresh, readable destination the call neither reads nor
\* warps the source image and writes nothing, but it still reads the extents
\* of a source given as a path and, once past the cache check, reads and warps
\* a mask; in every other case in which the extents could be read the source
\* image is read, and it is recomputed and written when that read succeeds.
C4_CacheSkipsSourceImageWork ==
    \A c \in Calls :
        Done(c) =>
            /\ DstFreshAndReadable(c) =>
                  /\ \A op \in {"read_src", "warp_image", "mkdir_dst", "write_dst"} :
                        ~Did(c, op)
                  /\ args.image_is_path => Did(c, "extents_src")
                  /\ (res[c].kind = "record" /\ args.mask_kind = "path") =>
                        Did(c, "read_mask")
                  /\ (res[c].kind = "record" /\ args.mask_kind # "none") =>
                        Did(c, "warp_mask")
            /\ (~DstFreshAndReadable(c) /\ Did(c, "stat_dst")) =>
                  /\ args.image_is_path => Did(c, "read_src")
                  /\ ~EndedAtSourceRead(c) =>
                        (Did(c, "warp_image") /\ Did(c, "write_dst"))
                  /\ (vanished # c /\ pre[c].src = "ok") => ~EndedAtSourceRead(c)
            /\ (vanished # c /\ pre[c].src \in {"truncated", "ok"}) =>
                  Did(c, "stat_dst")

\* C4 witness: a call on a fresh, readable destination returned a record whose
\* mask was read and warped although no source image was read.
C4_Witness ==
    /\ Done(1)
    /\ DstFreshAndReadable(1)
    /\ res[1].kind = "record"
    /\ ops[1] = <<"extents_src", "stat_dst", "read_dst", "read_mask", "warp_mask">>

\* when the source did not change during call c: whether c had to write
MustWrite(c) == ~DstFreshAndReadable(c) /\ pre[c].src = "ok"

WritesAsPolicy(c) ==
    /\ Count(c, "write_dst") <= 1
    /\ vanished # c => (Count(c, "write_dst") = 1 <=> MustWrite(c))
    /\ (DstFreshAndReadable(c) \/ res[c].kind = "none" \/ EndedAtSourceRead(c)) =>
          Count(c, "write_dst") = 0

\* C5 (as claimed): a call writes the destination once when the cache check
\* fails and the source is read, writes nothing otherwise, and performs no
\* other I/O.
C5_OneWriteNoOtherIO ==
    \A c \in Calls :
        Done(c) =>
            /\ WritesAsPolicy(c)
            /\ \A i \in DOMAIN ops[c] : ops[c][i] \in {"write_dst", "warp_image", "warp_mask"}

\* C5 (amended): a call writes the destination once when the cache check fails
\* and the source is read, and writes nothing otherwise; its other I/O is the
\* reads of the source extents, of the destination (stat and readability), of
\* the source image and of the mask file, and the creation of the
\* destination's directory right before the write.
C5_OneWriteAndReads ==
    \A c \in Calls :
        Done(c) =>
            /\ WritesAsPolicy(c)
            /\ \A i \in DOMAIN ops[c] :
                  /\ ops[c][i] \in {"extents_src", "stat_dst", "read_dst", "read_src",
                                    "read_mask", "mkdir_dst", "write_dst",
                                    "warp_image", "warp_mask"}
                  /\ ops[c][i] = "write_dst" => ops[c][i - 1] = "mkdir_dst"
                  /\ ops[c][i] = "mkdir_dst" => ops[c][i + 1] = "write_dst"
            /\ Count(c, "stat_dst") = (IF Did(c, "stat_dst") THEN 1 ELSE 0)
            /\ res[c].kind = "record" => Did(c, "stat_dst")

\* C5 witness: a call on a stale destination read the source and wrote once.
C5_Witness ==
    /\ Done(1)
    /\ ~DstFreshAndReadable(1)
    /\ pre[1].dst.exists
    /\ Count(1, "write_dst") = 1
    /\ Did(1, "read_src")
    /\ res[1].kind = "record"

Planned == pc \notin {"start", "plan"} /\ loc.new_camera # 0

ExampleFields == {"bbox", "image_path", "camera", "coords", "world_coords", "mask"}

\* C6: the caller's objects (the example, its bbox, camera, coords,
\* world_coords, mask and image) keep their values throughout; a returned
\* record is a new object none of whose fields refers to an object of the
\* caller; the new camera is an object other than the old camera, and the old
\* camera keeps its value through turn_towards, undistort, shift_image and
\* scale_output.
C6_InputNotMutated ==
    /\ \A a \in InputAddrs : heap[a] = InitHeap(args)[a]
    /\ \A c \in Calls :
          res[c].kind = "record" =>
              /\ res[c].ex \notin InputAddrs
              /\ \A f \in ExampleFields :
                    heap[res[c].ex][f].tag = "ref" =>
                        heap[res[c].ex][f].addr \notin InputAddrs
    /\ Planned =>
          /\ loc.new_camera # loc.old_camera
          /\ heap[loc.old_camera].val = SourceCamera

\* C6 witness: a 3D example was cropped with the antialias pre-downscale and
\* returned with a new camera whose value differs from the caller's camera.
C6_Witness ==
    /\ pc = "done"
    /\ res[call].kind = "record"
    /\ args.has_camera
    /\ args.downscale_input_for_antialias
    /\ Did(call, "warp_image")
    /\ heap[res[call].ex].camera.addr = loc.new_camera
    /\ heap[loc.new_camera].val # heap[CameraAddr].val

\* the item was mapped from the camera that describes its data to the camera to
InFrame(item, to) == item.present => (item.data = item.from /\ item.to = to)

\* C8 (as claimed): for every example kind, mask representation and flag
\* combination with readable inputs, the call returns a record whose written
\* image, bbox, coords and mask are all mapped from the source frame into the
\* frame of the same new camera.
C8_OneFrame ==
    \A c \in Calls :
        (/\ call = c
         /\ pc = "done"
         /\ vanished # c
         /\ pre[c].src = "ok"
         /\ pre[c].mask = "ok")
        => /\ res[c].kind = "record"
           /\ res[c].frames.bbox.present
           /\ args.mask_kind # "none" => res[c].frames.mask.present
           /\ \A k \in {"image", "bbox", "coords", "mask"} :
                 InFrame(res[c].frames[k], heap[loc.new_camera].val)

\* C10: with further_expansion_factor = 0 the crop box is the side-midpoint
\* reprojected subject box itself; with further_expansion_factor > 0 it is the
\* square of side max(cos30 w + sin30 h, cos30 h + sin30 w) about the box
\* centre, scaled by 440/289 times the factor and intersected with the
\* reprojected full-image box, which is the unbounded box under
\* extreme_perspective.
C10_CropBoxSelection ==
    Planned =>
        LET rb   == loc.first_reprojected_box
            full == loc.reprojected_full_box
            fef  == args.further_expansion_factor
            side == Max2((866 * rb[3] + 500 * rb[4]) \div 1000,
                         (866 * rb[4] + 500 * rb[3]) \div 1000)
            e    == (side * 440 * fef) \div 2890
            rx   == (2 * rb[1] + rb[3] - side) \div 2
            ry   == (2 * rb[2] + rb[4] - side) \div 2
            x    == (2 * rx + side - e) \div 2
            y    == (2 * ry + side - e) \div 2
            l    == Max2(x, full[1])
            t    == Max2(y, full[2])
            r    == Min2(x + e, full[1] + full[3])
            d    == Min2(y + e, full[2] + full[4])
        IN  /\ fef = 0 => loc.expanded_bbox = rb
            /\ fef > 0 => loc.expanded_bbox = <<l, t, Max2(r - l, 0), Max2(d - t, 0)>>
            /\ args.extreme_perspective =>
                  full = <<-1000000000, -1000000000, 2000000000, 2000000000>>
            /\ (~args.extreme_perspective /\ ~args.has_camera) =>
                  full = <<0, 0, ImageWidth, ImageHeight>>
            /\ ~args.has_camera => rb = args.bbox

\* C10 witness: the spec's scenario, bbox (100, 100, 50, 80) in a 640 x 480 image,
\* no camera, further_expansion_factor 0: the crop box is (100, 100, 50, 80).
C10_Witness ==
    /\ pc = "cache"
    /\ args.further_expansion_factor = 0
    /\ ~args.has_camera
    /\ args.bbox = <<100, 100, 50, 80>>
    /\ loc.expanded_bbox = <<100, 100, 50, 80>>

(***************************************************************************)
(* get_expanded_crop_box on its own: boxes on a grid inside a 120 x 120     *)
(* image, expanded and then compared with the box rotated about its centre. *)
(***************************************************************************)
\* the subject boxes start at multiples of 20 up to 20 * CropGrid
CropGrid == 3

CropFull == BoxFull(120, 120)

CropBoxes ==
    {b \in {Box(20 * i, 20 * j, w, h) :
                i \in 0 .. CropGrid, j \in 0 .. CropGrid,
                w \in {10, 40, 100}, h \in {10, 40}} :
        BoxContains(CropFull, b)}

\* rotation angles in degrees with cos and sin in thousandths, rounded up
Rotations ==
    {[deg |-> 0, cos |-> 1000, sin |-> 0], [deg |-> 5, cos |-> 997, sin |-> 88],
     [deg |-> 10, cos |-> 985, sin |-> 174], [deg |-> 20, cos |-> 940, sin |-> 343],
     [deg |-> 30, cos |-> 867, sin |-> 500]}

\* callVars while no call of make_efficient_example is modelled
IdleArgs ==
    [image_is_path |-> FALSE, is3d |-> FALSE, has_camera |-> FALSE,
     bbox |-> Box(100, 100, 50, 80), mask_kind |-> "none",
     further_expansion_factor |-> 0, min_time |-> <<>>,
     ignore_broken_image |-> FALSE, horizontal_flip |-> FALSE,
     downscale_input_for_antialias |-> FALSE, extreme_perspective |-> FALSE]

IdleCall ==
    /\ args = IdleArgs
    /\ heap = InitHeap(IdleArgs)
    /\ nextAddr = ImageAddr + 1
    /\ fs = [src |-> "ok", dst |-> [exists |-> FALSE, mtime |-> 0, readable |-> FALSE],
             mask |-> "ok"]
    /\ now = 3
    /\ call = 1
    /\ pc = "idle"
    /\ loc = InitLoc
    /\ ops = [c \in 1 .. MaxCalls |-> <<>>]
    /\ pre = [c \in 1 .. MaxCalls |-> fs]
    /\ res = [c \in 1 .. MaxCalls |-> Pending]
    /\ vanished = 0

InitCrop ==
    /\ IdleCall
    /\ cc = NoCC
    /\ crop \in [pc : {"input"}, bbox : CropBoxes, full_box : {CropFull, UnboundedBox},
                 further_expansion_factor : {5, 10, 20},
                 expanded : {Box(0, 0, 0, 0)}, result : {Box(0, 0, 0, 0)},
                 deg : {0}, rw : {0}, rh : {0}]

(* lines 126-140 *)
CropExpand ==
    /\ crop.pc = "input"
    /\ crop' = [crop EXCEPT
           !.pc = "expanded",
           !.expanded = ExpandedRotBbox(crop.bbox, crop.further_expansion_factor),
           !.result = get_expanded_crop_box(crop.bbox, crop.full_box,
                                            crop.further_expansion_factor)]
    /\ UNCHANGED <<callVars, cc>>

(* the subject box is rotated about its centre: the width and height it then spans *)
CropRotate ==
    /\ crop.pc = "expanded"
    /\ \E r \in Rotations :
          crop' = [crop EXCEPT
              !.pc = "rotated",
              !.deg = r.deg,
              !.rw = (r.cos * crop.bbox[3] + r.sin * crop.bbox[4] + 999) \div 1000,
              !.rh = (r.sin * crop.bbox[3] + r.cos * crop.bbox[4] + 999) \div 1000]
    /\ UNCHANGED <<callVars, cc>>

NextCrop == CropExpand \/ CropRotate

SpecCrop == InitCrop /\ [][NextCrop]_vars

\* box contains the rw x rh box whose centre is the centre of b
ContainsRotated(box, b, rw, rh) ==
    /\ 2 * box[1] <= Center2(b)[1] - rw
    /\ 2 * box[2] <= Center2(b)[2] - rh
    /\ Center2(b)[1] + rw <= 2 * (box[1] + box[3])
    /\ Center2(b)[2] + rh <= 2 * (box[2] + box[4])

\* C9 (as claimed): for every box, every further_expansion_factor > 0 and every
\* position in the image, the expanded crop box contains the box rotated by
\* up to 30 degrees about its centre.
C9_CropContainsRotatedBox ==
    crop.pc = "rotated" => ContainsRotated(crop.result, crop.bbox, crop.rw, crop.rh)

\* C9 (amended): for every box and every further_expansion_factor >= 1, the
\* expanded box before the intersection with the full-image box contains the
\* box rotated by up to 30 degrees about its centre, and the returned crop box
\* contains the rotated box whenever the rotated box lies inside the
\* full-image box.
C9_ExpandedContainsRotatedBox ==
    (crop.pc = "rotated" /\ crop.further_expansion_factor >= 10) =>
        /\ ContainsRotated(crop.expanded, crop.bbox, crop.rw, crop.rh)
        /\ ContainsRotated(crop.full_box, crop.bbox, crop.rw, crop.rh) =>
              ContainsRotated(crop.result, crop.bbox, crop.rw, crop.rh)

\* C9 witness: a box rotated by 30 degrees spans more than its own width, stays
\* inside the image, and lies inside a crop box that the image has clipped.
C9_Witness ==
    /\ crop.pc = "rotated"
    /\ crop.further_expansion_factor = 10
    /\ crop.deg = 30
    /\ crop.rw > crop.bbox[3]
    /\ crop.result # crop.expanded
    /\ ContainsRotated(crop.full_box, crop.bbox, crop.rw, crop.rh)
    /\ ContainsRotated(crop.result, crop.bbox, crop.rw, crop.rh)

(***************************************************************************)
(* get_connected_component_with_highest_iou on its own: every binary mask  *)
(* on a GridW x GridH image and every person box with integer corners.     *)
(* A pixel is <<column, row>>; a mask is its set of foreground pixels.     *)
(***************************************************************************)
GridW == 3

GridH == 3

Pixels == (0 .. GridW - 1) \X (0 .. GridH - 1)

PersonBoxes ==
    {Box(x, y, w, h) : x \in 0 .. GridW - 1, y \in 0 .. GridH - 1,
                       w \in 1 .. GridW, h \in 1 .. GridH}
      \cap {b \in Seq(Int) : b[1] + b[3] <= GridW /\ b[2] + b[4] <= GridH}

Adjacent4(p, q) ==
    \/ p[1] = q[1] /\ (p[2] = q[2] + 1 \/ q[2] = p[2] + 1)
    \/ p[2] = q[2] /\ (p[1] = q[1] + 1 \/ q[1] = p[1] + 1)

RECURSIVE Grow(_, _)
\* the foreground pixels 4-connected to the pixels of S
Grow(S, fg) ==
    LET N == S \cup {q \in fg : \E p \in S : Adjacent4(p, q)}
    IN  IF N = S THEN S ELSE Grow(N, fg)

\* the 4-connected components of the foreground
Components(fg) == {Grow({p}, fg) : p \in fg}

\* position of a pixel in row-major scan order
Raster(p) == p[2] * GridW + p[1]

FirstPixel(C) == CHOOSE v \in {Raster(p) : p \in C} : \A p \in C : v <= Raster(p)

\* cv2.connectedComponentsWithStats(mask, 4): label 0 is the background, labels
\* 1 .. n are the components in scan order of their first pixel
connectedComponents(fg) ==
    LET cs == Components(fg)
    IN  [l \in 0 .. Cardinality(cs) |->
            IF l = 0 THEN Pixels \ fg
            ELSE CHOOSE c \in cs :
                    Cardinality({d \in cs : FirstPixel(d) < FirstPixel(c)}) = l - 1]

\* stats[:, :4]: left, top, width, height of the pixels of a label
PixelBox(S) ==
    IF S = {} THEN Box(0, 0, 0, 0)
    ELSE LET xs == {p[1] : p \in S}
             ys == {p[2] : p \in S}
             l  == CHOOSE v \in xs : \A o \in xs : v <= o
             r  == CHOOSE v \in xs : \A o \in xs : v >= o
             t  == CHOOSE v \in ys : \A o \in ys : v <= o
             d  == CHOOSE v \in ys : \A o \in ys : v >= o
         IN  Box(l, t, r - l + 1, d - t + 1)

InterArea(a, b) == BoxArea(BoxIntersection(a, b))

UnionArea(a, b) == BoxArea(a) + BoxArea(b) - InterArea(a, b)

\* boxlib.iou(a, person) > boxlib.iou(b, person), the person box not empty
IouGreater(a, b, person) ==
    InterArea(a, person) * UnionArea(b, person)
        > InterArea(b, person) * UnionArea(a, person)

\* np.argmax(ious): the first label of highest IoU (lines 148-149)
ArgmaxIou(boxes, person) ==
    CHOOSE l \in DOMAIN boxes :
        \A m \in DOMAIN boxes :
            /\ m < l => IouGreater(boxes[l], boxes[m], person)
            /\ m > l => ~IouGreater(boxes[m], boxes[l], person)

\* the mask as bits in column-major order, as rlemasklib lays it out
ColumnMajorBits(S) ==
    [k \in 1 .. GridW * GridH |->
        IF <<(k - 1) \div GridH, (k - 1) % GridH>> \in S THEN 1 ELSE 0]

RECURSIVE Runs(_, _, _, _)
\* run lengths of bits from position i on; bit is the value of the open run
Runs(bits, i, bit, n) ==
    IF i > Len(bits) THEN <<n>>
    ELSE IF bits[i] = bit THEN Runs(bits, i + 1, bit, n + 1)
    ELSE <<n>> \o Runs(bits, i + 1, 1 - bit, 1)

\* rlemasklib.encode(mask): the size and the run lengths, zeros first
encode(S) == [size |-> <<GridH, GridW>>, counts |-> Runs(ColumnMajorBits(S), 1, 0, 0)]

InitCC ==
    /\ IdleCall
    /\ crop = NoCrop
    /\ cc \in [pc : {"input"}, mask : SUBSET Pixels, person_box : {Box(0, 0, 1, 1)},
               labels : {<<>>}, person_label : {0}, result : {encode({})}]

(* lines 145-147 *)
CCLabel ==
    /\ cc.pc = "input"
    /\ cc' = [cc EXCEPT !.pc = "labelled", !.labels = connectedComponents(cc.mask)]
    /\ UNCHANGED <<callVars, crop>>

(* lines 148-150, for the person box the caller passed *)
CCSelect ==
    /\ cc.pc = "labelled"
    /\ \E person_box \in PersonBoxes :
       \E person_label \in
              {ArgmaxIou([l \in DOMAIN cc.labels |-> PixelBox(cc.labels[l])],
                         person_box)} :
          cc' = [cc EXCEPT !.pc = "selected",
                           !.person_box = person_box,
                           !.person_label = person_label,
                           !.result = encode(cc.labels[person_label])]
    /\ UNCHANGED <<callVars, crop>>

NextCC == CCLabel \/ CCSelect

SpecCC == InitCC /\ [][NextCC]_vars

\* the box covers part of some pixel of S
Overlaps(box, S) ==
    \E p \in S :
        /\ box[1] < p[1] + 1
        /\ p[1] < box[1] + box[3]
        /\ box[2] < p[2] + 1
        /\ p[2] < box[2] + box[4]

\* C7 (as claimed): for a mask of two disjoint blobs and a person box that
\* overlaps only one of them, the result is the encoding of that blob: not of
\* the background and not of the other blob.
C7_KeepsTheOverlappedBlob ==
    (cc.pc = "selected" /\ Cardinality(Components(cc.mask)) = 2) =>
        \A blob \in Components(cc.mask) :
            (/\ Overlaps(cc.person_box, blob)
             /\ ~Overlaps(cc.person_box, cc.mask \ blob))
            => cc.result = encode(blob)

====
